---------------------------- MODULE Spec2Model ----------------------------
(***************************************************************************)
(* A model of ArgParser (src/ArgParser.js): a cursor over the argument     *)
(* list of a chat command that resolves arguments to users, channels and   *)
(* roles, or returns them as raw or cleaned text.                          *)
(*                                                                         *)
(* A JavaScript string is modelled as a sequence of characters, each       *)
(* character a one-character TLA+ string; the zero-width space U+200B is   *)
(* the character written ZWSP.                                             *)
(***************************************************************************)
EXTENDS Integers, Sequences, FiniteSets, TLC

(***************************************************************************)
(* Bounds of the model.                                                    *)
(***************************************************************************)
\* The longest argument list the caller hands to the constructor.
MaxArgs == 2

\* drop and getArgument are called with an index in -MaxIndex .. MaxIndex.
MaxIndex == 1

\* The rewrite loops of cleanContent are followed while the text is at most
\* MaxGrowth characters longer than the string cleanContent consumed.
MaxGrowth == 3

(***************************************************************************)
(* Characters and strings.                                                 *)
(***************************************************************************)
ZWSP == "u200B"

Digit == {"0", "1", "2", "3", "4", "5", "6", "7", "8", "9"}

\* The quantifier bounds of [0-9]{15,21} in the four matchers.
IdMinLen == 15

IdMaxLen == 21

\* n copies of the digit 1.
Ones(n) == [i \in 1..n |-> "1"]

Max(a, b) == IF a >= b THEN a ELSE b

Min(a, b) == IF a <= b THEN a ELSE b

\* An index of slice or splice made relative to a length: a negative index
\* counts from the end, and the result is clamped to 0 .. len.
Relative(i, len) == IF i < 0 THEN Max(len + i, 0) ELSE Min(i, len)

\* s.slice(start, end) of a string or an array, indices counted from 0.
Slice(s, start, end) ==
    SubSeq(s, Relative(start, Len(s)) + 1, Relative(end, Len(s)))

\* What a.splice(start, deleteCount) leaves in the array a.
SpliceLeaves(a, start, deleteCount) ==
    LET from == Relative(start, Len(a))
        n == Min(Max(deleteCount, 0), Len(a) - from)
    IN  SubSeq(a, 1, from) \o SubSeq(a, from + n + 1, Len(a))

\* What a.splice(start, deleteCount) returns: the elements removed.
SpliceReturns(a, start, deleteCount) ==
    LET from == Relative(start, Len(a))
        n == Min(Max(deleteCount, 0), Len(a) - from)
    IN  SubSeq(a, from + 1, from + n)

\* Whether pat occurs in s at the 1-based position i.
OccursAt(s, pat, i) ==
    /\ i >= 1
    /\ i + Len(pat) - 1 <= Len(s)
    /\ SubSeq(s, i, i + Len(pat) - 1) = pat

\* s.indexOf(pat) as a 1-based position, 0 when pat does not occur.
IndexOf(s, pat) ==
    LET hits == {i \in 1..(Len(s) - Len(pat) + 1) : OccursAt(s, pat, i)}
    IN  IF hits = {} THEN 0 ELSE CHOOSE i \in hits : \A j \in hits : i <= j

\* Array.prototype.join(' ') on an array of strings.
RECURSIVE Join(_)
Join(a) ==
    IF a = <<>> THEN <<>>
    ELSE IF Len(a) = 1 THEN a[1]
    ELSE a[1] \o <<" ">> \o Join(Tail(a))

\* The grave accent and the apostrophe.
Grave == "grave"

Apostrophe == "apostrophe"

\* The replacement text of String.prototype.replace(string, string): "$$"
\* is a dollar sign, "$&" the matched text, "$" with a grave accent the
\* text before the match and "$" with an apostrophe the text after it; any
\* other character stands for itself.
RECURSIVE GetSubstitution(_, _, _, _)
GetSubstitution(repl, matched, before, after) ==
    IF repl = <<>> THEN <<>>
    ELSE IF repl[1] = "$" /\ Len(repl) >= 2 /\ repl[2] \in {"$", "&", Grave, Apostrophe}
    THEN (CASE repl[2] = "$" -> <<"$">>
            [] repl[2] = "&" -> matched
            [] repl[2] = Grave -> before
            [] repl[2] = Apostrophe -> after)
         \o GetSubstitution(Slice(repl, 2, Len(repl)), matched, before, after)
    ELSE <<repl[1]>> \o GetSubstitution(Tail(repl), matched, before, after)

\* s.replace(pat, repl) with a string pattern: only the first occurrence of
\* pat is replaced, and s is returned as it is when pat does not occur.
Replace(s, pat, repl) ==
    LET i == IndexOf(s, pat)
        before == SubSeq(s, 1, i - 1)
        after == SubSeq(s, i + Len(pat), Len(s))
    IN  IF i = 0 THEN s
        ELSE before \o GetSubstitution(repl, pat, before, after) \o after

(***************************************************************************)
(* The four matchers.  RegExp.prototype.exec returns the leftmost match,   *)
(* or null; a match is the record of its position, match[0] and match[1].  *)
(***************************************************************************)
NoMatch == [found |-> FALSE, at |-> 0, whole |-> <<>>, id |-> <<>>]

\* The length of the longest run of digits of s that starts at position i.
DigitRun(s, i) ==
    LET stops == {j \in i..Len(s) : s[j] \notin Digit}
    IN  IF i < 1 \/ i > Len(s) THEN 0
        ELSE IF stops = {} THEN Len(s) - i + 1
        ELSE (CHOOSE j \in stops : \A k \in stops : j <= k) - i

\* idMatcher without its quantifier bounds: /^([0-9]+)$/
idMatcherAnyLength(s) ==
    IF Len(s) >= 1 /\ DigitRun(s, 1) = Len(s)
    THEN [found |-> TRUE, at |-> 1, whole |-> s, id |-> s]
    ELSE NoMatch

\* const idMatcher = /^([0-9]{15,21})$/
idMatcher(s) ==
    IF Len(s) >= IdMinLen /\ Len(s) <= IdMaxLen /\ DigitRun(s, 1) = Len(s)
    THEN [found |-> TRUE, at |-> 1, whole |-> s, id |-> s]
    ELSE NoMatch

\* Whether open [0-9]{15,21} ">" matches s at position i.  The quantifier is
\* greedy and ">" is no digit, so the digits matched are the whole run.
MatchesAt(s, open, i) ==
    LET n == DigitRun(s, i + Len(open))
    IN  /\ OccursAt(s, open, i)
        /\ n >= IdMinLen
        /\ n <= IdMaxLen
        /\ OccursAt(s, <<">">>, i + Len(open) + n)

\* The match at position i of s that opens with open: match[0] is the whole
\* of it and match[1] its digits.
MatchAt(s, open, i) ==
    [found |-> TRUE, at |-> i,
     whole |-> SubSeq(s, i, i + Len(open) + DigitRun(s, i + Len(open))),
     id |-> SubSeq(s, i + Len(open), i + Len(open) + DigitRun(s, i + Len(open)) - 1)]

\* exec of the pattern: one of the opening texts, the digits, ">".  The
\* match returned is the leftmost one.
MentionExec(s, opens) ==
    LET all == {c \in [at : DOMAIN s, open : opens] : MatchesAt(s, c.open, c.at)}
    IN  IF all = {} THEN NoMatch
        ELSE CHOOSE m \in {MatchAt(s, c.open, c.at) :
                               c \in {x \in all : \A y \in all : x.at <= y.at}} : TRUE

\* const userMentionMatcher = /<@!?([0-9]{15,21})>/
userMentionMatcher(s) == MentionExec(s, {<<"<", "@">>, <<"<", "@", "!">>})

\* const channelMentionMatcher = /<#([0-9]{15,21})>/
channelMentionMatcher(s) == MentionExec(s, {<<"<", "#">>})

\* const roleMentionMatcher = /<@&([0-9]{15,21})>/
roleMentionMatcher(s) == MentionExec(s, {<<"<", "@", "&">>})

(***************************************************************************)
(* JavaScript values: what an operation returns, or what it threw.         *)
(***************************************************************************)
Undefined == [kind |-> "undefined", val |-> <<>>, num |-> 0]

Null == [kind |-> "null", val |-> <<>>, num |-> 0]

Str(s) == [kind |-> "string", val |-> s, num |-> 0]

Num(n) == [kind |-> "number", val |-> <<>>, num |-> n]

Bool(b) == [kind |-> "boolean", val |-> <<>>, num |-> IF b THEN 1 ELSE 0]

\* A user, channel or role object of the directory, known by its id.
Obj(kind, id) == [kind |-> kind, val |-> id, num |-> 0]

\* Reading a property of undefined throws a TypeError.
TypeError == [kind |-> "TypeError", val |-> <<>>, num |-> 0]

\* No value yet: before the first call, and while cleanContent runs.
NoValue == [kind |-> "none", val |-> <<>>, num |-> 0]

\* !v for the values an argument can be: undefined and "" are falsy.
Falsy(v) == v.kind \in {"undefined", "null"} \/ (v.kind = "string" /\ v.val = <<>>)

(***************************************************************************)
(* The directory: Eris collections are Maps in insertion order, modelled   *)
(* as sequences of records with distinct ids.                              *)
(***************************************************************************)
\* The position of the entry Collection.get(id) returns, 0 when it returns
\* undefined.
Get(coll, id) ==
    LET hits == {i \in DOMAIN coll : coll[i].id = id}
    IN  IF hits = {} THEN 0 ELSE CHOOSE i \in hits : TRUE

\* `${user.username}#${user.discriminator}`
UserTag(user) == user.username \o <<"#">> \o user.discriminator

\* The first of the positions is, 0 when there is none: Collection.find
\* returns the first entry in insertion order that passes, or undefined.
First(is) == IF is = {} THEN 0 ELSE CHOOSE i \in is : \A j \in is : i <= j

\* users.find(user => `${user.username}#${user.discriminator}` === s)
FindByTag(coll, s) == First({i \in DOMAIN coll : UserTag(coll[i]) = s})

\* users.find(user => user.username === s)
FindByUsername(coll, s) == First({i \in DOMAIN coll : coll[i].username = s})

\* channels.find(channel => channel.name === s), and the same of roles
FindByName(coll, s) == First({i \in DOMAIN coll : coll[i].name = s})

\* The value a lookup returns: the object at position i, or undefined.
Found(kind, coll, i) == IF i = 0 THEN Undefined ELSE Obj(kind, coll[i].id)

\* user.nick || user.username: a User object has no nick, and a Member's
\* nick may be null or empty.
DisplayName(user) ==
    IF "nick" \in DOMAIN user /\ user.nick # <<>> THEN user.nick ELSE user.username

(***************************************************************************)
(* The strings and directories the model runs on.                          *)
(***************************************************************************)
Id15 == Ones(IdMinLen)

Id21 == Ones(IdMaxLen)

UserMention(id) == <<"<", "@", "!">> \o id \o <<">">>

ChannelMention(id) == <<"<", "#">> \o id \o <<">">>

RoleMention(id) == <<"<", "@", "&">> \o id \o <<">">>

AtEveryone == <<"@", "e", "v", "e", "r", "y", "o", "n", "e">>

AtHere == <<"@", "h", "e", "r", "e">>

DeletedUser == <<"@", "d", "e", "l", "e", "t", "e", "d", "-", "u", "s", "e", "r">>

DeletedChannel ==
    <<"#", "d", "e", "l", "e", "t", "e", "d", "-", "c", "h", "a", "n", "n", "e", "l">>

DeletedRole == <<"@", "d", "e", "l", "e", "t", "e", "d", "-", "r", "o", "l", "e">>

\* Two users of the same username, a member with a nickname and one
\* without, a channel of the message's guild and one of another guild with
\* the same name, and a role.
PlainWorld ==
    [users |-> <<[id |-> Id15, username |-> <<"a">>, discriminator |-> <<"0", "0", "0", "1">>],
                 [id |-> Id21, username |-> <<"a">>, discriminator |-> <<"0", "0", "0", "2">>]>>,
     members |-> <<[id |-> Id15, username |-> <<"a">>, nick |-> <<>>],
                   [id |-> Id21, username |-> <<"a">>, nick |-> <<"n">>]>>,
     elsewhere |-> <<[id |-> Id21, name |-> <<"a">>]>>,
     channels |-> <<[id |-> Id15, name |-> <<"a">>]>>,
     roles |-> <<[id |-> Id15, name |-> <<"a">>]>>]

\* Names chosen by other users of the platform: a nickname that is a
\* mention of its own member, a username that is a replacement pattern, and
\* a channel and a role named by a number.
HostileWorld ==
    [users |-> <<[id |-> Id21, username |-> <<"$", "&">>, discriminator |-> <<"0", "0", "0", "1">>]>>,
     members |-> <<[id |-> Id21, username |-> <<"a">>, nick |-> UserMention(Id21)]>>,
     elsewhere |-> <<>>,
     channels |-> <<[id |-> Id15, name |-> Id15]>>,
     roles |-> <<[id |-> Id15, name |-> Id15]>>]

\* Arguments that are ids, or nearly: no text, 14, 15 and 22 digits.
IdTokens == {<<>>, <<"a">>, Ones(IdMinLen - 1), Id15, Ones(IdMaxLen + 1)}

\* Arguments that are names and mentions.
NameTokens ==
    {<<"a">>, <<"a", "#", "0", "0", "0", "2">>,
     UserMention(Id21), ChannelMention(Id15), RoleMention(Id15)}

\* Arguments that exercise cleanContent.
CleanTokens ==
    {AtEveryone, AtHere, UserMention(Id21), ChannelMention(Id15), RoleMention(Id21)}

\* Arguments that meet the names of HostileWorld.
HostileTokens ==
    {UserMention(Id21), ChannelMention(Id15), <<"<">> \o RoleMention(Id15) \o <<">">>}

Scenarios ==
    {[world |-> PlainWorld, tokens |-> IdTokens],
     [world |-> PlainWorld, tokens |-> NameTokens],
     [world |-> PlainWorld, tokens |-> CleanTokens],
     [world |-> HostileWorld, tokens |-> HostileTokens]}

\* The argument lists of at most MaxArgs tokens.
ArgLists(tokens) == UNION {[1..n -> tokens] : n \in 0..MaxArgs}

Indices == (0 - MaxIndex)..MaxIndex

\* msg.channel.guild of a direct message is undefined.
NoGuild == [present |-> FALSE, channels |-> <<>>, roles |-> <<>>, members |-> <<>>]

(***************************************************************************)
(* The state.                                                              *)
(***************************************************************************)
VARIABLES
    args,       \* this.args, the array shared with the caller
    bot,        \* this.bot: the users and the channels of every guild
    guild,      \* this.msg.channel.guild, or NoGuild
    call,       \* the last operation called, with its parameters
    consumed,   \* what that operation took from args (shift, or splice and join)
    lookup,     \* the lookup a resolver chose, and its key
    result,     \* what the operation returned or threw
    pc,         \* where cleanContent stands: idle when it is not running
    str,        \* the local variable args of cleanContent
    match       \* the local variable match of cleanContent

vars == <<args, bot, guild, call, consumed, lookup, result, pc, str, match>>

NoLookup == [by |-> "none", key |-> <<>>]

Called(op, consumeRest, index) == [op |-> op, consumeRest |-> consumeRest, index |-> index]

Init ==
    \E sc \in Scenarios, g \in BOOLEAN : \E a \in ArgLists(sc.tokens) :
        /\ args = a
        /\ bot = [users |-> sc.world.users,
                  channels |-> sc.world.elsewhere \o sc.world.channels]
        /\ guild = IF g THEN [present |-> TRUE, channels |-> sc.world.channels,
                              roles |-> sc.world.roles, members |-> sc.world.members]
                   ELSE NoGuild
        /\ call = Called("new", FALSE, 0)
        /\ consumed = NoValue
        /\ lookup = NoLookup
        /\ result = NoValue
        /\ pc = "idle"
        /\ str = <<>>
        /\ match = NoMatch

(***************************************************************************)
(* consumeRest ? this.args.splice(0).join(' ') : this.args.shift()         *)
(***************************************************************************)
\* The value of the expression.
NextValue(a, consumeRest) ==
    IF consumeRest THEN Str(Join(SpliceReturns(a, 0, Len(a))))
    ELSE IF a = <<>> THEN Undefined ELSE Str(a[1])

\* The array left if the rest were taken with slice(0), which copies.
NextLeavesSliced(a, consumeRest) ==
    IF consumeRest THEN a
    ELSE IF a = <<>> THEN <<>> ELSE Tail(a)

\* The array it leaves.
NextLeaves(a, consumeRest) ==
    IF consumeRest THEN SpliceLeaves(a, 0, Len(a))
    ELSE IF a = <<>> THEN <<>> ELSE Tail(a)

(***************************************************************************)
(* The resolvers.  Each is first the function of the consumed value that   *)
(* gives the returned value and the lookup chosen, then the operation.     *)
(***************************************************************************)
Outcome(value, by, key) == [result |-> value, lookup |-> [by |-> by, key |-> key]]

\* The test for a discriminator one character off: args.slice(-4, -3)
HasDiscrimOffByOne(s) == Len(s) > 5 /\ Slice(s, -4, -3) = <<"#">>

\* args.length > 5 && args.slice(-5, -4) === '#'
HasDiscrim(s) == Len(s) > 5 /\ Slice(s, -5, -4) = <<"#">>

\* idMatcher.exec(args) || matcher.exec(args)
IdMatch(s, mention) == IF idMatcher(s).found THEN idMatcher(s) ELSE mention

UserOf(v) ==
    IF Falsy(v) THEN Outcome(Null, "none", <<>>)
    ELSE LET idMatch == IdMatch(v.val, userMentionMatcher(v.val))
         IN  IF idMatch.found
             THEN Outcome(Found("user", bot.users, Get(bot.users, idMatch.id)),
                          "id", idMatch.id)
             ELSE IF HasDiscrim(v.val)
             THEN Outcome(Found("user", bot.users, FindByTag(bot.users, v.val)),
                          "tag", v.val)
             ELSE Outcome(Found("user", bot.users, FindByUsername(bot.users, v.val)),
                          "username", v.val)

ChannelOf(v) ==
    IF Falsy(v) THEN Outcome(Null, "none", <<>>)
    ELSE LET idMatch == IdMatch(v.val, channelMentionMatcher(v.val))
         IN  IF idMatch.found
             THEN Outcome(Found("channel", bot.channels, Get(bot.channels, idMatch.id)),
                          "id", idMatch.id)
             ELSE IF ~guild.present
             THEN Outcome(Null, "none", <<>>)
             ELSE Outcome(Found("channel", guild.channels, FindByName(guild.channels, v.val)),
                          "name", v.val)

RoleOf(v) ==
    IF ~guild.present \/ Falsy(v) THEN Outcome(Null, "none", <<>>)
    ELSE LET idMatch == IdMatch(v.val, roleMentionMatcher(v.val))
         IN  IF idMatch.found
             THEN Outcome(Found("role", guild.roles, Get(guild.roles, idMatch.id)),
                          "id", idMatch.id)
             ELSE Outcome(Found("role", guild.roles, FindByName(guild.roles, v.val)),
                          "name", v.val)

\* An operation that consumes, then returns at once.
Returns(op, consumeRest, outcome) ==
    /\ pc = "idle"
    /\ args' = NextLeaves(args, consumeRest)
    /\ call' = Called(op, consumeRest, 0)
    /\ consumed' = NextValue(args, consumeRest)
    /\ lookup' = outcome.lookup
    /\ result' = outcome.result
    /\ UNCHANGED <<bot, guild, pc, str, match>>

resolveUser(consumeRest) ==
    Returns("resolveUser", consumeRest, UserOf(NextValue(args, consumeRest)))

resolveChannel(consumeRest) ==
    Returns("resolveChannel", consumeRest, ChannelOf(NextValue(args, consumeRest)))

\* resolveRole if it returned for want of a guild before it consumed.
resolveRoleGuildFirst(consumeRest) ==
    IF guild.present
    THEN Returns("resolveRole", consumeRest, RoleOf(NextValue(args, consumeRest)))
    ELSE /\ pc = "idle"
         /\ call' = Called("resolveRole", consumeRest, 0)
         /\ consumed' = NoValue
         /\ lookup' = NoLookup
         /\ result' = Null
         /\ UNCHANGED <<args, bot, guild, pc, str, match>>

resolveRole(consumeRest) ==
    Returns("resolveRole", consumeRest, RoleOf(NextValue(args, consumeRest)))

nextArgument(consumeRest) ==
    Returns("nextArgument", consumeRest,
            [result |-> NextValue(args, consumeRest), lookup |-> NoLookup])

(***************************************************************************)
(* cleanContent: the call, then a step for each test and body of its loops. *)
(***************************************************************************)
cleanContent(consumeRest) ==
    /\ pc = "idle"
    /\ args' = NextLeaves(args, consumeRest)
    /\ call' = Called("cleanContent", consumeRest, 0)
    /\ consumed' = NextValue(args, consumeRest)
    /\ lookup' = NoLookup
    /\ IF Falsy(NextValue(args, consumeRest))
       THEN result' = Null /\ pc' = "idle" /\ str' = <<>>
       ELSE result' = NoValue /\ pc' = "users" /\ str' = NextValue(args, consumeRest).val
    /\ match' = NoMatch
    /\ UNCHANGED <<bot, guild>>

\* user ? `@${user.nick || user.username}` : '@deleted-user', the user taken
\* from the guild's members, or from the bot's users in a direct message.
FormattedUser(id) ==
    LET coll == IF guild.present THEN guild.members ELSE bot.users
        i == Get(coll, id)
    IN  IF i = 0 THEN DeletedUser ELSE <<"@">> \o DisplayName(coll[i])

FormattedChannel(id) ==
    LET i == Get(guild.channels, id)
    IN  IF i = 0 THEN DeletedChannel ELSE <<"#">> \o guild.channels[i].name

FormattedRole(id) ==
    LET i == Get(guild.roles, id)
    IN  IF i = 0 THEN DeletedRole ELSE <<"@">> \o guild.roles[i].name

\* s.replace(pat, repl) if it replaced every occurrence of pat.
RECURSIVE ReplaceEvery(_, _, _)
ReplaceEvery(s, pat, repl) ==
    LET i == IndexOf(s, pat)
    IN  IF i = 0 THEN s
        ELSE SubSeq(s, 1, i - 1) \o repl
             \o ReplaceEvery(SubSeq(s, i + Len(pat), Len(s)), pat, repl)

\* The broadcast mentions cleaned wherever they occur, as with /g.
CleanBroadcastEvery(s) ==
    ReplaceEvery(ReplaceEvery(s, AtEveryone, <<"@", ZWSP>> \o Tail(AtEveryone)),
                 AtHere, <<"@", ZWSP>> \o Tail(AtHere))

\* args.replace('@everyone', '@​everyone').replace('@here', '@​here')
CleanBroadcast(s) ==
    Replace(Replace(s, AtEveryone, <<"@", ZWSP>> \o Tail(AtEveryone)),
            AtHere, <<"@", ZWSP>> \o Tail(AtHere))

\* The loops run while the text stays within MaxGrowth of what was consumed.
WithinGrowth(s) == Len(s) <= Len(consumed.val) + MaxGrowth

\* while ((match = userMentionMatcher.exec(args)) !== null)
userMentionTest ==
    /\ pc = "users"
    /\ match' = userMentionMatcher(str)
    /\ pc' = IF match'.found THEN "userFound" ELSE "channels"
    /\ UNCHANGED <<args, bot, guild, call, consumed, lookup, result, str>>

\* The body of the first loop.
userMentionRewrite ==
    /\ pc = "userFound"
    /\ WithinGrowth(Replace(str, match.whole, FormattedUser(match.id)))
    /\ str' = Replace(str, match.whole, FormattedUser(match.id))
    /\ pc' = "users"
    /\ UNCHANGED <<args, bot, guild, call, consumed, lookup, result, match>>

\* while ((match = channelMentionMatcher.exec(args)) !== null)
channelMentionTest ==
    /\ pc = "channels"
    /\ match' = channelMentionMatcher(str)
    /\ pc' = IF match'.found THEN "channelFound" ELSE "roles"
    /\ UNCHANGED <<args, bot, guild, call, consumed, lookup, result, str>>

\* The body of the second loop: this.msg.channel.guild.channels throws
\* when the message has no guild.
channelMentionRewrite ==
    /\ pc = "channelFound"
    /\ IF ~guild.present
       THEN str' = str /\ pc' = "idle" /\ result' = TypeError
       ELSE /\ WithinGrowth(Replace(str, match.whole, FormattedChannel(match.id)))
            /\ str' = Replace(str, match.whole, FormattedChannel(match.id))
            /\ pc' = "channels"
            /\ result' = result
    /\ UNCHANGED <<args, bot, guild, call, consumed, lookup, match>>

\* while ((match = roleMentionMatcher.exec(args)) !== null), and after the
\* loop the two broadcast mentions and the return.
roleMentionTest ==
    /\ pc = "roles"
    /\ match' = roleMentionMatcher(str)
    /\ IF match'.found
       THEN pc' = "roleFound" /\ result' = result
       ELSE pc' = "idle" /\ result' = Str(CleanBroadcast(str))
    /\ UNCHANGED <<args, bot, guild, call, consumed, lookup, str>>

\* The body of the third loop: this.msg.channel.guild.roles throws when the
\* message has no guild.
roleMentionRewrite ==
    /\ pc = "roleFound"
    /\ IF ~guild.present
       THEN str' = str /\ pc' = "idle" /\ result' = TypeError
       ELSE /\ WithinGrowth(Replace(str, match.whole, FormattedRole(match.id)))
            /\ str' = Replace(str, match.whole, FormattedRole(match.id))
            /\ pc' = "roles"
            /\ result' = result
    /\ UNCHANGED <<args, bot, guild, call, consumed, lookup, match>>

(***************************************************************************)
(* The operations that do not consume.                                     *)
(***************************************************************************)
Reads(op, index, value) ==
    /\ pc = "idle"
    /\ call' = Called(op, FALSE, index)
    /\ consumed' = NoValue
    /\ lookup' = NoLookup
    /\ result' = value
    /\ UNCHANGED <<args, bot, guild, pc, str, match>>

\* !this.args[0]
isEmpty == Reads("isEmpty", 0, Bool(args = <<>> \/ args[1] = <<>>))

\* this.args.join(' ').length
textLength == Reads("textLength", 0, Num(Len(Join(args))))

\* this.args.slice(index, 1).join(' ')
ArgumentAt(a, index) == Join(Slice(a, index, 1))

getArgument(index) == Reads("getArgument", index, Str(ArgumentAt(args, index)))

gather == Reads("gather", 0, Str(Join(args)))

\* this.args.splice(index, 1)
Dropped(a, index) == SpliceLeaves(a, index, 1)

drop(index) ==
    /\ pc = "idle"
    /\ args' = Dropped(args, index)
    /\ call' = Called("drop", FALSE, index)
    /\ consumed' = NoValue
    /\ lookup' = NoLookup
    /\ result' = Undefined
    /\ UNCHANGED <<bot, guild, pc, str, match>>

Next ==
    \/ \E consumeRest \in BOOLEAN : resolveUser(consumeRest)
    \/ \E consumeRest \in BOOLEAN : resolveChannel(consumeRest)
    \/ \E consumeRest \in BOOLEAN : resolveRole(consumeRest)
    \/ \E consumeRest \in BOOLEAN : nextArgument(consumeRest)
    \/ \E consumeRest \in BOOLEAN : cleanContent(consumeRest)
    \/ userMentionTest
    \/ userMentionRewrite
    \/ channelMentionTest
    \/ channelMentionRewrite
    \/ roleMentionTest
    \/ roleMentionRewrite
    \/ isEmpty
    \/ textLength
    \/ \E index \in Indices : getArgument(index)
    \/ gather
    \/ \E index \in Indices : drop(index)

Spec == Init /\ [][Next]_vars

\* cleanContent is synchronous: once called, its loops keep running.
CleanStep ==
    \/ userMentionTest
    \/ userMentionRewrite
    \/ channelMentionTest
    \/ channelMentionRewrite
    \/ roleMentionTest
    \/ roleMentionRewrite

FairSpec == Spec /\ WF_vars(CleanStep)

(***************************************************************************)
(* What the properties below are stated with.                              *)
(***************************************************************************)
Consumers == {"resolveUser", "resolveChannel", "resolveRole", "nextArgument", "cleanContent"}

Readers == {"isEmpty", "textLength", "getArgument", "gather"}

Resolvers == {"resolveUser", "resolveChannel", "resolveRole"}

Absent(v) == v.kind \in {"undefined", "null"}

\* a without its element at the 1-based position k.
Without(a, k) == [i \in 1..(Len(a) - 1) |-> IF i < k THEN a[i] ELSE a[i + 1]]

\* Where the k-th token starts in the tokens joined by single spaces.
RECURSIVE Offset(_, _)
Offset(a, k) == IF k <= 1 THEN 0 ELSE Offset(a, k - 1) + Len(a[k - 1]) + 1

\* s is the tokens of a, in order, with one space between neighbours.
IsJoined(s, a) ==
    /\ Len(s) = IF a = <<>> THEN 0 ELSE Offset(a, Len(a)) + Len(a[Len(a)])
    /\ \A k \in DOMAIN a :
        /\ SubSeq(s, Offset(a, k) + 1, Offset(a, k) + Len(a[k])) = a[k]
        /\ k < Len(a) => s[Offset(a, k) + Len(a[k]) + 1] = " "

\* C1: nextArgument(false) removes the first token and returns it, and
\* returns absent on an empty list, which stays empty; nextArgument(true)
\* empties the list and returns its tokens joined by single spaces, in order.
NextArgumentConsumes ==
    [][call'.op = "nextArgument" =>
        IF call'.consumeRest
        THEN args' = <<>> /\ result'.kind = "string" /\ IsJoined(result'.val, args)
        ELSE IF args = <<>>
        THEN args' = <<>> /\ Absent(result')
        ELSE /\ result' = Str(args[1])
             /\ Len(args') = Len(args) - 1
             /\ \A i \in DOMAIN args' : args'[i] = args[i + 1]]_vars

\* nextArgument(true) took two tokens and left the list empty.
NextArgumentJoined ==
    /\ call = Called("nextArgument", TRUE, 0)
    /\ args = <<>>
    /\ result = Str(<<"a", " ">> \o Id15)

\* C2: a consuming operation leaves the list without its first token, or
\* empty when it consumes the rest, whatever it returns; drop removes at
\* most one token and keeps the others in order; nothing else changes the
\* list.
OnlyFrontIsConsumed ==
    [][/\ (pc = "idle" /\ call'.op \in Consumers) =>
            args' = IF call'.consumeRest THEN <<>> ELSE SubSeq(args, 2, Len(args))
       /\ (pc # "idle" \/ call'.op \in Readers) => args' = args
       /\ call'.op = "drop" =>
            \/ args' = args
            \/ \E k \in DOMAIN args : args' = Without(args, k)]_vars

\* resolveRole in a direct message returned null and took the role mention
\* from the front of the list all the same.
RoleConsumedWithoutGuild ==
    /\ call = Called("resolveRole", FALSE, 0)
    /\ ~guild.present
    /\ consumed = Str(RoleMention(Id15))
    /\ result = Null
    /\ args = <<<<"a">>>>

(***************************************************************************)
(* Ids and mentions, as the specification words them.                      *)
(***************************************************************************)
KindOf(op) ==
    CASE op = "resolveUser" -> "user"
      [] op = "resolveChannel" -> "channel"
      [] op = "resolveRole" -> "role"

Opens(kind) ==
    CASE kind = "user" -> {<<"<", "@">>, <<"<", "@", "!">>}
      [] kind = "channel" -> {<<"<", "#">>}
      [] kind = "role" -> {<<"<", "@", "&">>}

IsDigits(s) == \A i \in DOMAIN s : s[i] \in Digit

\* A string of 15 to 21 ASCII digits.
IsBareId(s) == Len(s) \in IdMinLen..IdMaxLen /\ IsDigits(s)

\* The mentions of a kind that s holds: where each starts, how it opens and
\* how many digits its id has.
MentionsIn(s, kind) ==
    {m \in [at : DOMAIN s, open : Opens(kind), n : IdMinLen..IdMaxLen] :
        /\ m.at + Len(m.open) + m.n <= Len(s)
        /\ SubSeq(s, m.at, m.at + Len(m.open) - 1) = m.open
        /\ IsDigits(SubSeq(s, m.at + Len(m.open), m.at + Len(m.open) + m.n - 1))
        /\ s[m.at + Len(m.open) + m.n] = ">"}

IdOf(s, m) == SubSeq(s, m.at + Len(m.open), m.at + Len(m.open) + m.n - 1)

\* s is a mention, and nothing more.
IsMention(s, kind) ==
    \E m \in MentionsIn(s, kind) : m.at = 1 /\ Len(m.open) + m.n + 1 = Len(s)

Leftmost(ms) == CHOOSE m \in ms : \A x \in ms : m.at <= x.at

Least(is) == CHOOSE i \in is : \A j \in is : i <= j

\* The string is longer than 5 characters and its 5th from last is '#'.
EndsWithDiscrim(s) == Len(s) > 5 /\ s[Len(s) - 4] = "#"

\* Whether entry e of a directory is the one a name s asks for.
NameIs(kind, e, s) ==
    IF kind = "user"
    THEN IF EndsWithDiscrim(s) THEN e.username \o <<"#">> \o e.discriminator = s
         ELSE e.username = s
    ELSE e.name = s

\* What an operation returned is the first of the entries is of dir, or
\* absent when there is none.
ReturnsFirst(kind, dir, is) ==
    IF is = {} THEN Absent(result) ELSE result = Obj(kind, dir[Least(is)].id)

\* C3 as first stated: a resolver returns absent exactly when the consumed
\* string is empty or the directory holds no entity matching it, by id when
\* the string is an id or a mention of the kind and by exact name otherwise,
\* in guild and non-guild messages alike.
ResolversFindEveryMatch ==
    call.op \in Resolvers =>
        LET s == consumed.val
            kind == KindOf(call.op)
            dir == CASE kind = "user" -> bot.users
                     [] kind = "channel" -> bot.channels
                     [] kind = "role" -> guild.roles
            wanted(e) == IF IsBareId(s) THEN e.id = s
                         ELSE IF IsMention(s, kind)
                         THEN e.id = IdOf(s, Leftmost(MentionsIn(s, kind)))
                         ELSE NameIs(kind, e, s)
        IN  IF Falsy(consumed) THEN Absent(result)
            ELSE ReturnsFirst(kind, dir, {i \in DOMAIN dir : wanted(dir[i])})

\* C3, amended: the lookup is by id when the string is an id or holds a
\* mention of the kind, among all users, all channels or the guild's roles;
\* it is by exact name otherwise, among all users or among the channels and
\* roles of the message's guild, which a direct message does not have.
ResolversFindScopedMatch ==
    call.op \in Resolvers =>
        LET s == consumed.val
            kind == KindOf(call.op)
            mentions == MentionsIn(s, kind)
            byId == IsBareId(s) \/ mentions # {}
            dir == CASE kind = "user" -> bot.users
                     [] kind = "channel" -> IF byId THEN bot.channels ELSE guild.channels
                     [] kind = "role" -> guild.roles
            wanted(e) == IF IsBareId(s) THEN e.id = s
                         ELSE IF mentions # {} THEN e.id = IdOf(s, Leftmost(mentions))
                         ELSE NameIs(kind, e, s)
        IN  IF Falsy(consumed) THEN Absent(result)
            ELSE ReturnsFirst(kind, dir, {i \in DOMAIN dir : wanted(dir[i])})

\* resolveChannel in a direct message returned null for the name of a
\* channel that the bot knows.
ChannelNameInDirectMessage ==
    /\ call.op = "resolveChannel"
    /\ ~guild.present
    /\ consumed = Str(<<"a">>)
    /\ \E i \in DOMAIN bot.channels : bot.channels[i].name = <<"a">>
    /\ result = Null

\* C9 as first stated: lookup by id only for a string that is an id or is
\* a mention of the kind; any other string is looked up by name, and for
\* resolveUser by username#discriminator or by username alone.
IdLookupOnlyForIds ==
    (call.op \in Resolvers /\ ~Falsy(consumed)) =>
        LET s == consumed.val
            isId == IsBareId(s) \/ IsMention(s, KindOf(call.op))
        IN  /\ lookup.by = "id" => isId
            /\ (~isId /\ call.op = "resolveUser") =>
                    lookup.by = IF EndsWithDiscrim(s) THEN "tag" ELSE "username"
            /\ (~isId /\ call.op # "resolveUser") => lookup.by \in {"name", "none"}

\* C9, amended: lookup by id exactly for a string that is an id or holds a
\* mention of the kind, whose leftmost mention gives the id; any other
\* string is looked up by name whenever a lookup is made.
IdLookupForIdsAndHeldMentions ==
    call.op \in Resolvers =>
        LET s == consumed.val
            mentions == MentionsIn(s, KindOf(call.op))
        IN  IF Falsy(consumed) \/ (call.op = "resolveRole" /\ ~guild.present)
            THEN lookup = NoLookup
            ELSE IF IsBareId(s) THEN lookup = [by |-> "id", key |-> s]
            ELSE IF mentions # {}
            THEN lookup = [by |-> "id", key |-> IdOf(s, Leftmost(mentions))]
            ELSE IF call.op = "resolveUser"
            THEN lookup = [by |-> IF EndsWithDiscrim(s) THEN "tag" ELSE "username",
                           key |-> s]
            ELSE IF call.op = "resolveChannel" /\ ~guild.present
            THEN lookup = NoLookup
            ELSE lookup = [by |-> "name", key |-> s]

\* resolveUser looked a string of 14 digits up as a username.
ShortNumberLookedUpByName ==
    /\ call.op = "resolveUser"
    /\ consumed = Str(Ones(IdMinLen - 1))
    /\ lookup = [by |-> "username", key |-> Ones(IdMinLen - 1)]

\* C4 as stated: no operation throws; each completes with a value or absent.
NoOperationThrows == result.kind # "TypeError"

\* Whether s holds a mention of any of the three kinds.
HoldsMention(s) == \E kind \in {"user", "channel", "role"} : MentionsIn(s, kind) # {}

\* C5 as stated: a string cleanContent returns holds no user, channel or
\* role mention, whatever the names in the directory.
CleanedHoldsNoMention ==
    (call.op = "cleanContent" /\ pc = "idle" /\ result.kind = "string") =>
        ~HoldsMention(result.val)

DropRemovesOnlyInBounds ==
    [][call'.op = "drop" =>
        IF call'.index >= 0 /\ call'.index < Len(args)
        THEN args' = Without(args, call'.index + 1)
        ELSE args' = args]_vars

\* C8 as stated: getArgument returns the token at the index when the index
\* is within the list, and the empty string otherwise.
GetArgumentReturnsTokenAtIndex ==
    call.op = "getArgument" =>
        result = Str(IF call.index >= 0 /\ call.index < Len(args)
                     THEN args[call.index + 1] ELSE <<>>)

\* The first position at which pat occurs in s, 0 if it does not occur.
FirstAt(s, pat) ==
    LET occurs(i) == \A k \in DOMAIN pat : i + k - 1 <= Len(s) /\ s[i + k - 1] = pat[k]
    IN  IF \E i \in DOMAIN s : occurs(i)
        THEN CHOOSE i \in DOMAIN s : occurs(i) /\ \A j \in 1..(i - 1) : ~occurs(j)
        ELSE 0

\* s with a zero-width space put in after each of the positions ps.
RECURSIVE WithZwspAfter(_, _)
WithZwspAfter(s, ps) ==
    IF ps = {} THEN s
    ELSE LET p == CHOOSE x \in ps : \A y \in ps : x >= y
         IN  WithZwspAfter(SubSeq(s, 1, p) \o <<ZWSP>> \o SubSeq(s, p + 1, Len(s)),
                           ps \ {p})

\* C10: what cleanContent returns is the rewritten text with a zero-width
\* space after the '@' of its first '@everyone' and of its first '@here',
\* and nothing else changed.
BroadcastsDefusedOnce ==
    [][(pc = "roles" /\ pc' = "idle" /\ result'.kind = "string") =>
        result'.val = WithZwspAfter(str, {FirstAt(str, AtEveryone),
                                          FirstAt(str, AtHere)} \ {0})]_vars

\* cleanContent(true) on "@everyone" "@everyone" put a zero-width space
\* into the first "@everyone" and left the second as it was.
SecondEveryoneKept ==
    /\ call = Called("cleanContent", TRUE, 0)
    /\ pc = "idle"
    /\ consumed = Str(AtEveryone \o <<" ">> \o AtEveryone)
    /\ result = Str(<<"@", ZWSP>> \o Tail(AtEveryone) \o <<" ">> \o AtEveryone)

\* The bound MaxGrowth stops no run that would end: a rewrite it disables
\* is one of the first loop whose replacement text brings the matched
\* mention back, so that the same rewrite is due again after it.
GrowthBoundStopsOnlyRematches ==
    LET new == Replace(str, match.whole, FormattedUser(match.id))
    IN  (pc \in {"userFound", "channelFound", "roleFound"} /\ ~ENABLED CleanStep) =>
            /\ pc = "userFound"
            /\ userMentionMatcher(new).whole = match.whole
            /\ Len(new) > Len(str)

=============================================================================
